---- MODULE Spec2Model ----
(***************************************************************************)
(* The medication-tracker service worker: cache lifecycle (install,        *)
(* activate), fetch interception, the client log relay, the push           *)
(* notification pipeline and the notification click handler.               *)
(*                                                                         *)
(* The repository holds two builds of the worker: src/public/sw.js         *)
(* (CACHE_NAME medication-tracker-v3) and src/unnamed/part_000             *)
(* (CACHE_NAME medication-tracker-v4, which adds a DEBUG notification and  *)
(* an async sendLogToApp).  The variable build says which one runs.        *)
(*                                                                         *)
(* Host promises (cache storage, client enumeration, network, notification *)
(* display) settle in separate steps; whether one fulfils or rejects is    *)
(* the host's choice.                                                      *)
(***************************************************************************)
EXTENDS Integers, Sequences, FiniteSets, TLC

VARIABLES
  build,          \* which build of the worker is running
  cacheStorage,   \* the origin's cache storage: buckets in creation order
  console,        \* the console.error messages written so far
  installEv,      \* the install event's handler
  activateEv,     \* the activate event's handler
  fetchEv,        \* the fetch event being handled
  fetchCount,     \* fetch events dispatched so far
  clientList,     \* the open clients, in the host's enumeration order
  emitted,        \* the log events passed to sendLogToApp, in call order
  relayPending,   \* the sendLogToApp calls whose matchAll has not settled
  inbox,          \* per client, the log events postMessage delivered
  relayFaults,    \* when matchAll rejects and whose postMessage throws
  relayOutcome,   \* how each settled sendLogToApp call went
  pushEv,         \* the push event's handler
  clickEv,        \* the notificationclick event's handler
  messageEv       \* the message events handled

cacheVars == <<cacheStorage, installEv, activateEv, fetchEv, fetchCount>>
relayVars == <<clientList, emitted, relayPending, inbox, relayFaults, relayOutcome>>
eventVars == <<pushEv, clickEv, messageEv>>
vars == <<build, console, cacheVars, relayVars, eventVars>>

----------------------------------------------------------------------------
(* Bounds *)

MaxFetches == 2
MaxWindows == 3
MaxClients == 2
MaxMessages == 1

----------------------------------------------------------------------------
(* Constants of the program *)

Builds == {"v3", "v4"}

CACHE_NAME == IF build = "v3" THEN "medication-tracker-v3"
                              ELSE "medication-tracker-v4"

urlsToCache == {"/", "/manifest.json", "/navikinder-logo-256.png"}

\* The bucket names cache storage may hold: the two builds' and an older one.
BucketNames ==
  {"medication-tracker-v2", "medication-tracker-v3", "medication-tracker-v4"}

\* The URLs a page may request: the precached ones and one that never is.
RequestUrls == urlsToCache \cup {"/api/doses"}

Undefined == [type |-> "undefined"]

----------------------------------------------------------------------------
(* Cache storage, as the handlers use it *)

BucketNamesOf(store) == {store[i].name : i \in DOMAIN store}

\* caches.open(name): the bucket, created empty at the end when absent.
CachesOpen(store, name) ==
  IF name \in BucketNamesOf(store) THEN store
  ELSE Append(store, [name |-> name, urls |-> {}])

\* addAll that stores nothing and still fulfils.
CacheAddAllNothing(store, name, urls) == store

\* cache.addAll(urls): all of them, in one step.
CacheAddAll(store, name, urls) ==
  [i \in DOMAIN store |->
     IF store[i].name = name THEN [store[i] EXCEPT !.urls = @ \cup urls]
     ELSE store[i]]

\* caches.keys(): the names in creation order.
CachesKeys(store) == [i \in DOMAIN store |-> store[i].name]

CachesDeleteBucket(store, name) == SelectSeq(store, LAMBDA b : b.name # name)

\* caches.match(request): the response of the first bucket, in creation
\* order, that holds the request; undefined when none does.
CachesMatch(store, url) ==
  LET holders == {i \in DOMAIN store : url \in store[i].urls} IN
  IF holders = {} THEN Undefined
  ELSE LET first == CHOOSE i \in holders : \A j \in holders : i <= j IN
       [from |-> store[first].name, url |-> url]

NetworkResponse(url) == [from |-> "network", url |-> url]

----------------------------------------------------------------------------
(* Client log relay *)

LogEvent(logType, message, handler) ==
  [logType |-> logType, message |-> message, handler |-> handler]

\* sendLogToApp up to its first suspension: the call of clients.matchAll.
SendLogToAppCalls(logs) ==
  /\ emitted' = emitted \o logs
  /\ relayPending' = relayPending \cup (Len(emitted) + 1 .. Len(emitted) + Len(logs))
  /\ UNCHANGED <<clientList, inbox, relayFaults, relayOutcome>>

\* clients.matchAll(options): the positions in list of the clients the call
\* returns, in enumeration order; uncontrolled ones only when asked for.
MatchAll(list, includeUncontrolled) ==
  SelectSeq([c \in DOMAIN list |-> c],
            LAMBDA c : list[c].controlled \/ includeUncontrolled)

\* The clients sendLogToApp enumerates: matchAll() in sw.js,
\* matchAll({ includeUncontrolled: true }) in part_000.
RelayRecipients(list) ==
  LET found == MatchAll(list, build = "v4") IN {found[k] : k \in DOMAIN found}

\* clients.forEach(client => client.postMessage(...)): the clients the
\* message reaches when postMessage throws for those in throwing.  part_000
\* catches per client; in sw.js the first throw ends the loop.
ForEachPostMessage(recipients, throwing) ==
  IF build = "v4" THEN recipients \ throwing
  ELSE {c \in recipients : \A t \in throwing \cap recipients : c < t}

\* What the relay writes with console.error when it fails.
RelayConsole(log, rejected, thrown) ==
  IF build = "v4"
  THEN (IF rejected THEN {"[SW] Failed to send log to app"} ELSE {})
       \cup (IF thrown THEN {"[SW] Failed to send to client"} ELSE {})
  ELSE IF log.handler = "sendInitialLog" /\ (rejected \/ thrown)
       THEN {"Failed to send initial log"} ELSE {}

Deliver(box, i) ==
  [got |-> box.got \cup {i},
   reordered |-> box.reordered
                 \/ \E j \in box.got : j > i /\ emitted[j].handler = emitted[i].handler]

\* Whether a matchAll call of the relay rejects, for a host whose matchAll
\* rejects never, sometimes or always.
MatchAllRejects(mode) ==
  CASE mode = "never" -> {FALSE}
    [] mode = "always" -> {TRUE}
    [] OTHER -> BOOLEAN

\* The rest of one sendLogToApp call: matchAll settles and the loop runs.
\* postMessage throws for the clients in relayFaults.throwing.
RelaySettles(i) ==
  /\ i \in relayPending
  /\ relayPending' = relayPending \ {i}
  /\ \E rejected \in MatchAllRejects(relayFaults.matchAll) :
       LET throwing == IF rejected THEN {}
                       ELSE relayFaults.throwing \cap RelayRecipients(clientList)
           reached == IF rejected THEN {}
                      ELSE ForEachPostMessage(RelayRecipients(clientList), throwing)
       IN /\ inbox' = [c \in DOMAIN inbox |->
                         IF c \in reached THEN Deliver(inbox[c], i) ELSE inbox[c]]
          /\ console' = console \cup RelayConsole(emitted[i], rejected, throwing # {})
          /\ relayOutcome' = relayOutcome \cup
               {[log |-> i, rejected |-> rejected, throwing |-> throwing]}
  /\ UNCHANGED <<build, cacheVars, clientList, emitted, relayFaults, eventVars>>

\* self.location.origin, and another site's origin
Origin == "https://app.example"
OtherOrigin == "https://other.example"

\* A client's URL, as the sequence of its parts.
AppUrls == {<<Origin, "/">>, <<Origin, "/overview">>}
OtherUrls == {<<OtherOrigin, "/">>, <<OtherOrigin, "/?next=", Origin>>}

\* The lists of up to n clients with URLs among urls.
ClientLists(urls, n) ==
  UNION {[1..k -> [controlled : BOOLEAN, url : urls]] : k \in 0..n}

EmptyInbox(list) == [c \in DOMAIN list |-> [got |-> {}, reordered |-> FALSE]]

RelayInit(lists, matchAllModes, mayThrow) ==
  /\ clientList \in lists
  /\ relayFaults \in [matchAll : matchAllModes,
                       throwing : IF mayThrow THEN SUBSET DOMAIN clientList ELSE {{}}]
  /\ emitted = <<>>
  /\ relayPending = {}
  /\ inbox = EmptyInbox(clientList)
  /\ relayOutcome = {}

----------------------------------------------------------------------------
(* Install: open the bucket named CACHE_NAME and precache urlsToCache *)

\* The install listener up to caches.open(CACHE_NAME).
InstallEvent ==
  /\ installEv.pc = "idle"
  /\ installEv' = [pc |-> "open", task |-> "pending"]
  /\ UNCHANGED <<build, console, cacheStorage, activateEv, fetchEv, fetchCount, relayVars, eventVars>>

\* caches.open settles: .then(cache => cache.addAll(urlsToCache)), or .catch.
InstallOpenSettles ==
  /\ installEv.pc = "open"
  /\ \E ok \in BOOLEAN :
       IF ok
       THEN /\ cacheStorage' = CachesOpen(cacheStorage, CACHE_NAME)
            /\ installEv' = [installEv EXCEPT !.pc = "addAll"]
            /\ console' = console
       ELSE /\ cacheStorage' = cacheStorage
            /\ installEv' = [pc |-> "done", task |-> "fulfilled"]
            /\ console' = console \cup {"Cache installation failed"}
  /\ UNCHANGED <<build, activateEv, fetchEv, fetchCount, relayVars, eventVars>>

\* cache.addAll settles: every URL is stored, or none and .catch logs.
InstallAddAllSettles ==
  /\ installEv.pc = "addAll"
  /\ \E ok \in BOOLEAN :
       IF ok
       THEN /\ cacheStorage' = CacheAddAll(cacheStorage, CACHE_NAME, urlsToCache)
            /\ console' = console
       ELSE /\ cacheStorage' = cacheStorage
            /\ console' = console \cup {"Cache installation failed"}
  /\ installEv' = [pc |-> "done", task |-> "fulfilled"]
  /\ UNCHANGED <<build, activateEv, fetchEv, fetchCount, relayVars, eventVars>>

----------------------------------------------------------------------------
(* Activate: delete the buckets of other versions *)

\* The map without its cacheName !== CACHE_NAME test.
ActivateDeletionsAll(cacheNames) == {cacheNames[i] : i \in DOMAIN cacheNames}

\* cacheNames.map(...): the names caches.delete is called with.
ActivateDeletions(cacheNames) ==
  {cacheNames[i] : i \in {k \in DOMAIN cacheNames : cacheNames[k] # CACHE_NAME}}

\* The activate listener up to caches.keys().  present records the buckets
\* that exist when the event fires.
ActivateEvent ==
  /\ installEv.pc = "done"
  /\ activateEv.pc = "idle"
  /\ activateEv' = [activateEv EXCEPT !.pc = "keys", !.task = "pending",
                                      !.present = BucketNamesOf(cacheStorage)]
  /\ UNCHANGED <<build, console, cacheStorage, installEv, fetchEv, fetchCount, relayVars, eventVars>>

\* caches.keys() settles: one caches.delete per stale name, all started in
\* the same turn and awaited with Promise.all; a rejection has no handler.
ActivateKeysSettle ==
  /\ activateEv.pc = "keys"
  /\ \E ok \in BOOLEAN :
       IF ok
       THEN activateEv' = [activateEv EXCEPT
                             !.pc = "deleting",
                             !.deleteCalls = ActivateDeletions(CachesKeys(cacheStorage)),
                             !.deleting = ActivateDeletions(CachesKeys(cacheStorage))]
       ELSE activateEv' = [activateEv EXCEPT !.pc = "done", !.task = "rejected"]
  /\ UNCHANGED <<build, console, cacheStorage, installEv, fetchEv, fetchCount, relayVars, eventVars>>

\* One caches.delete settles.  Promise.all rejects with the first rejection;
\* the other deletions go on.
ActivateDeleteSettles(name) ==
  /\ activateEv.pc \in {"deleting", "done"}
  /\ name \in activateEv.deleting
  /\ \E ok \in BOOLEAN :
       IF ok
       THEN /\ cacheStorage' = CachesDeleteBucket(cacheStorage, name)
            /\ activateEv' = [activateEv EXCEPT !.deleting = @ \ {name}]
       ELSE /\ cacheStorage' = cacheStorage
            /\ activateEv' = [activateEv EXCEPT !.deleting = @ \ {name},
                                                !.pc = "done", !.task = "rejected"]
  /\ UNCHANGED <<build, console, installEv, fetchEv, fetchCount, relayVars, eventVars>>

\* Promise.all fulfils: log, and setTimeout(sendInitialLog, 1000).
ActivateCleanupComplete ==
  /\ activateEv.pc = "deleting"
  /\ activateEv.deleting = {}
  /\ activateEv' = [activateEv EXCEPT !.pc = "done", !.task = "fulfilled",
                                      !.timer = "armed"]
  /\ UNCHANGED <<build, console, cacheStorage, installEv, fetchEv, fetchCount, relayVars, eventVars>>

\* The timer fires: sendInitialLog relays one info log.
SendInitialLog ==
  /\ activateEv.timer = "armed"
  /\ activateEv' = [activateEv EXCEPT !.timer = "fired"]
  /\ SendLogToAppCalls(<<LogEvent("info", "Service Worker is active and ready",
                                  "sendInitialLog")>>)
  /\ UNCHANGED <<build, console, cacheStorage, installEv, fetchEv, fetchCount, eventVars>>

----------------------------------------------------------------------------
(* Fetch interception: cache first, then network *)

\* The test inverted: if (!response).
IsCachedResponseInverted(response) == response = Undefined

\* if (response): a cached response is returned as it is.
IsCachedResponse(response) == response # Undefined

IdleFetch ==
  [pc |-> "idle", url |-> "/", lookup |-> "none", inCache |-> FALSE,
   networkCalls |-> 0, result |-> "none", response |-> Undefined]

\* The fetch listener up to caches.match(event.request).  The host
\* dispatches fetch events to an activated worker.
FetchEvent(url) ==
  /\ activateEv.task \in {"fulfilled", "rejected"}
  /\ fetchEv.pc \in {"idle", "settled"}
  /\ fetchCount < MaxFetches
  /\ fetchCount' = fetchCount + 1
  /\ fetchEv' = [IdleFetch EXCEPT !.pc = "match", !.url = url,
                                  !.lookup = "pending", !.result = "pending"]
  /\ UNCHANGED <<build, console, cacheStorage, installEv, activateEv, relayVars, eventVars>>

\* caches.match settles.  A response is returned; undefined starts the
\* network fetch; a rejection goes to the outer .catch, which logs and
\* fetches.  inCache records whether some bucket held the request then.
FetchMatchSettles ==
  /\ fetchEv.pc = "match"
  /\ \E ok \in BOOLEAN :
       LET response == CachesMatch(cacheStorage, fetchEv.url)
           held == \E i \in DOMAIN cacheStorage : fetchEv.url \in cacheStorage[i].urls
       IN
       IF ~ok
       THEN /\ fetchEv' = [fetchEv EXCEPT !.pc = "fallbackFetch", !.lookup = "failed",
                                          !.networkCalls = @ + 1]
            /\ console' = console \cup {"Cache lookup failed"}
       ELSE /\ console' = console
            /\ IF IsCachedResponse(response)
               THEN fetchEv' = [fetchEv EXCEPT !.pc = "settled", !.lookup = "hit",
                                               !.inCache = held,
                                               !.result = "fulfilled",
                                               !.response = response]
               ELSE fetchEv' = [fetchEv EXCEPT !.pc = "fetch", !.lookup = "miss",
                                               !.inCache = held,
                                               !.networkCalls = @ + 1]
  /\ UNCHANGED <<build, cacheStorage, installEv, activateEv, fetchCount, relayVars, eventVars>>

\* fetch(event.request) of the miss branch settles.  Its .catch logs and
\* rethrows; the rethrown error reaches the outer .catch of the chain, which
\* logs and calls fetch(event.request) again.
FetchNetworkSettles ==
  /\ fetchEv.pc = "fetch"
  /\ \E ok \in BOOLEAN :
       IF ok
       THEN /\ fetchEv' = [fetchEv EXCEPT !.pc = "settled", !.result = "fulfilled",
                                          !.response = NetworkResponse(fetchEv.url)]
            /\ console' = console
       ELSE /\ fetchEv' = [fetchEv EXCEPT !.pc = "fallbackFetch",
                                          !.networkCalls = @ + 1]
            /\ console' = console \cup {"Network fetch failed", "Cache lookup failed"}
  /\ UNCHANGED <<build, cacheStorage, installEv, activateEv, fetchCount, relayVars, eventVars>>

\* The outer .catch's fetch settles: its outcome is the request's.
FetchFallbackSettles ==
  /\ fetchEv.pc = "fallbackFetch"
  /\ \E ok \in BOOLEAN :
       fetchEv' = [fetchEv EXCEPT
                     !.pc = "settled",
                     !.result = IF ok THEN "fulfilled" ELSE "rejected",
                     !.response = IF ok THEN NetworkResponse(fetchEv.url) ELSE Undefined]
  /\ UNCHANGED <<build, console, cacheStorage, installEv, activateEv, fetchCount, relayVars, eventVars>>

----------------------------------------------------------------------------
(* The cache lifecycle and fetch interception *)

\* What earlier versions left in cache storage: each bucket empty or holding
\* the precache list, since addAll stores all of it or nothing.
InitialStores ==
  {s \in UNION {[1..n -> [name : BucketNames, urls : {{}, urlsToCache}]] : n \in 0..3} :
     \A i, j \in DOMAIN s : i # j => s[i].name # s[j].name}

----------------------------------------------------------------------------
(* JavaScript values, as far as the push handler looks at them *)

JsNull == [type |-> "null"]
JsString(s) == [type |-> "string", value |-> s]
JsNumber(n) == [type |-> "number", value |-> n]
JsArray == [type |-> "array"]
JsObject(fields) == [type |-> "object", fields |-> fields]
EmptyObject == JsObject(<<>>)

\* v.name: reading a property of null or undefined throws a TypeError.
PropertyAccessThrows(v) == v.type \in {"null", "undefined"}

\* v.name for the names title, body and data, which strings, numbers and
\* arrays do not have.
GetProperty(v, name) ==
  IF v.type = "object" /\ name \in DOMAIN v.fields THEN v.fields[name]
  ELSE Undefined

\* ToBoolean
Truthy(v) ==
  CASE v.type \in {"undefined", "null"} -> FALSE
    [] v.type = "string" -> v.value # ""
    [] v.type = "number" -> v.value # 0
    [] OTHER -> TRUE

\* a || b
JsOr(a, b) == IF Truthy(a) THEN a ELSE b

----------------------------------------------------------------------------
(* Push payloads *)

Thrown == [ok |-> FALSE]
Returned(v) == [ok |-> TRUE, value |-> v]

\* event.data is null
NoData == [present |-> FALSE]
\* the bytes are JSON text for the value v
JsonPayload(v) == [present |-> TRUE, json |-> Returned(v), text |-> Returned(JsString("json"))]
\* the bytes are text that is not JSON
TextPayload(t) == [present |-> TRUE, json |-> Thrown, text |-> Returned(JsString(t))]
\* neither json() nor text() decodes the bytes
Undecodable == [present |-> TRUE, json |-> Thrown, text |-> Thrown]

TitleValues == {JsString(""), JsString("Dose due")}
BodyValues == {JsString(""), JsString("Take 5 ml")}

\* Objects with any of the fields title, body and data.
PayloadObjects ==
  {JsObject(f) :
     f \in UNION {{g \in [names -> TitleValues \cup BodyValues \cup {EmptyObject}] :
                     /\ "title" \in names => g["title"] \in TitleValues
                     /\ "body" \in names => g["body"] \in BodyValues
                     /\ "data" \in names => g["data"] = EmptyObject} :
                  names \in SUBSET {"title", "body", "data"}}}

JsonValues == PayloadObjects \cup {JsNull, JsNumber(7), JsString("hello"), JsArray}

Payloads ==
  {NoData, Undecodable}
    \cup {TextPayload(t) : t \in {"", "Time for your dose"}}
    \cup {JsonPayload(v) : v \in JsonValues}

----------------------------------------------------------------------------
(* Push: decode the payload, derive title and options, show *)

DefaultTitle == JsString("Medication Reminder")
DefaultBody == JsString("It's time for a medication dose")
LogoIcon == "/navikinder-logo-256.png"
PlaceholderIcon == "https://via.placeholder.com/192x192.png"

PushLog(logType, message) == LogEvent(logType, message, "push")

\* The logs sent before event.waitUntil.
PushReceivedLogs ==
  (IF build = "v4"
   THEN <<PushLog("success", "CRITICAL: Push event fired on service worker!")>>
   ELSE <<>>)
  \o <<PushLog("info", "Push notification received"),
       PushLog("info", "Permission")>>

\* if (event.data) { try json() catch { try text() catch {} } } else {}:
\* the decoded data and the logs of the tier taken.
PushDecode(payload) ==
  IF ~payload.present
  THEN [data |-> EmptyObject,
        logs |-> <<PushLog("warning", "No data in push event")>>]
  ELSE IF payload.json.ok
  THEN [data |-> payload.json.value,
        logs |-> <<PushLog("success", "Successfully parsed push data")>>]
  ELSE IF payload.text.ok
  THEN [data |-> JsObject([f \in {"body"} |-> payload.text.value]),
        logs |-> <<PushLog("error", "Failed to parse JSON"),
                   PushLog("warning", "Using text fallback")>>]
  ELSE [data |-> EmptyObject,
        logs |-> <<PushLog("error", "Failed to parse JSON"),
                   PushLog("error", "Failed to parse text")>>]

\* The title without its default: const title = data.title.
PushTitleNoDefault(data) == GetProperty(data, "title")

\* const title = data.title || 'Medication Reminder'
PushTitle(data) == JsOr(GetProperty(data, "title"), DefaultTitle)

\* const options = { body: data.body || ..., icon, badge, data: data.data || {},
\* requireInteraction: true }
PushOptions(data) ==
  [body |-> JsOr(GetProperty(data, "body"), DefaultBody),
   icon |-> LogoIcon,
   badge |-> LogoIcon,
   data |-> JsOr(GetProperty(data, "data"), EmptyObject),
   requireInteraction |-> TRUE]

\* The options of the DEBUG notification of part_000.
DebugOptions ==
  [body |-> JsString("This confirms push events reach the service worker and showNotification works"),
   icon |-> PlaceholderIcon]

\* The fallback given the DEBUG notification's body.
FallbackOptionsDebugBody ==
  [body |-> DebugOptions.body,
   icon |-> IF build = "v4" THEN PlaceholderIcon ELSE LogoIcon]

\* The options of the fallback notification.
FallbackOptions ==
  [body |-> DefaultBody,
   icon |-> IF build = "v4" THEN PlaceholderIcon ELSE LogoIcon]

\* One call of self.registration.showNotification.
ShowCall(call, title, options) ==
  [call |-> call, title |-> title, options |-> options, outcome |-> "pending"]

Settle(shown, ok) ==
  [shown EXCEPT ![Len(shown)].outcome = IF ok THEN "shown" ELSE "failed"]

IdlePush ==
  [pc |-> "idle", payload |-> NoData, task |-> "none", shown |-> <<>>]

\* The push listener up to the first await.  The async function runs in the
\* same turn up to its first showNotification call; data.title on a null
\* data throws, which rejects the function's promise.
PushEvent(payload) ==
  /\ pushEv.pc = "idle"
  /\ LET decoded == PushDecode(payload)
         data == decoded.data
     IN
     IF PropertyAccessThrows(data)
     THEN /\ pushEv' = [pushEv EXCEPT !.pc = "done", !.payload = payload,
                                      !.task = "rejected"]
          /\ SendLogToAppCalls(PushReceivedLogs \o decoded.logs)
     ELSE /\ SendLogToAppCalls(
               PushReceivedLogs \o decoded.logs
                 \o <<PushLog("info", "Attempting to show notification")>>)
          /\ pushEv' =
               [pc |-> IF build = "v4" THEN "debug" ELSE "main",
                payload |-> payload,
                task |-> "pending",
                shown |-> IF build = "v4"
                          THEN <<ShowCall("debug", JsString("DEBUG: Push Event Received"),
                                          DebugOptions)>>
                          ELSE <<ShowCall("main", PushTitle(data), PushOptions(data))>>]
  /\ UNCHANGED <<build, console, cacheVars, clickEv, messageEv>>

\* The DEBUG showNotification of part_000 settles; then the main call.
PushDebugSettles ==
  /\ pushEv.pc = "debug"
  /\ \E ok \in BOOLEAN :
       /\ SendLogToAppCalls(
            <<IF ok THEN PushLog("success", "DEBUG notification shown - push events work!")
                    ELSE PushLog("error", "DEBUG notification failed")>>)
       /\ LET data == PushDecode(pushEv.payload).data IN
          pushEv' = [pushEv EXCEPT
                       !.pc = "main",
                       !.shown = Append(Settle(pushEv.shown, ok),
                                        ShowCall("main", PushTitle(data), PushOptions(data)))]
  /\ UNCHANGED <<build, console, cacheVars, clickEv, messageEv>>

\* showNotification(title, options) settles; on failure the fallback call.
PushMainSettles ==
  /\ pushEv.pc = "main"
  /\ \E ok \in BOOLEAN :
       IF ok
       THEN /\ SendLogToAppCalls(<<PushLog("success", IF build = "v4"
                                                   THEN "Main notification shown successfully!"
                                                   ELSE "Notification shown successfully!")>>)
            /\ pushEv' = [pushEv EXCEPT !.pc = "done", !.task = "fulfilled",
                                        !.shown = Settle(pushEv.shown, TRUE)]
       ELSE /\ SendLogToAppCalls(<<PushLog("error", IF build = "v4"
                                                 THEN "Main showNotification failed"
                                                 ELSE "showNotification failed")>>)
            /\ pushEv' = [pushEv EXCEPT
                            !.pc = "fallback",
                            !.shown = Append(Settle(pushEv.shown, FALSE),
                                             ShowCall("fallback", DefaultTitle,
                                                      FallbackOptions))]
  /\ UNCHANGED <<build, console, cacheVars, clickEv, messageEv>>

\* The fallback showNotification settles; either way the function returns.
PushFallbackSettles ==
  /\ pushEv.pc = "fallback"
  /\ \E ok \in BOOLEAN :
       /\ SendLogToAppCalls(
            <<IF ok THEN PushLog("success", "Fallback notification shown")
                    ELSE PushLog("error", "Even fallback notification failed")>>)
       /\ pushEv' = [pushEv EXCEPT !.pc = "done", !.task = "fulfilled",
                                   !.shown = Settle(pushEv.shown, ok)]
  /\ UNCHANGED <<build, console, cacheVars, clickEv, messageEv>>

----------------------------------------------------------------------------
(* Messages from the app *)

\* What a client may post: nothing, values without a type, and objects
\* with a type.
MessageData ==
  {JsNull, JsString("TEST_LOG"), EmptyObject}
    \cup {JsObject([f \in {"type"} |-> JsString(t)]) :
            t \in {"TEST_CONNECTION", "TEST_LOG", "PING"}}

MessageLog(logType, message) == LogEvent(logType, message, "message")

\* Any message with data is acknowledged: the type test left out.
MessageLogsAnyType(data) ==
  IF Truthy(data)
  THEN <<MessageLog("success", "Service Worker connection verified")>>
  ELSE <<>>

\* if (event.data && event.data.type === 'TEST_CONNECTION') ... else if
\* (event.data && event.data.type === 'TEST_LOG') ...: the logs sent.
MessageLogs(data) ==
  IF Truthy(data) /\ GetProperty(data, "type") = JsString("TEST_CONNECTION")
  THEN <<MessageLog("success", "Service Worker connection verified")>>
  ELSE IF Truthy(data) /\ GetProperty(data, "type") = JsString("TEST_LOG")
  THEN <<MessageLog("success", "Service Worker test message received"),
         MessageLog("info", "Service Worker is functioning correctly")>>
  ELSE <<>>

IdleMessage == [count |-> 0, data |-> JsNull, logsFrom |-> 0]

\* The message listener, which returns without awaiting anything.  logsFrom
\* is the number of logs emitted before it ran.
MessageEvent(data) ==
  /\ messageEv.count < MaxMessages
  /\ messageEv' = [count |-> messageEv.count + 1, data |-> data,
                   logsFrom |-> Len(emitted)]
  /\ SendLogToAppCalls(MessageLogs(data))
  /\ UNCHANGED <<build, console, cacheVars, pushEv, clickEv>>

----------------------------------------------------------------------------
(* Notification click: focus an open window of the app, or open one *)

OverviewRoute == "/overview"

\* url.includes(part), on URLs written as sequences of parts.
Includes(url, part) == \E k \in DOMAIN url : url[k] = part

\* The loop without its return: the last matching window wins.
RECURSIVE FindLastWindow(_, _)
FindLastWindow(windows, i) ==
  IF i > Len(windows) THEN 0
  ELSE LET later == FindLastWindow(windows, i + 1) IN
       IF later # 0 THEN later
       ELSE IF Includes(clientList[windows[i]].url, Origin) THEN windows[i]
       ELSE 0

\* The loop without its URL test: the first window wins.
FindAnyWindow(windows, i) == IF i > Len(windows) THEN 0 ELSE windows[i]

\* for (let i = 0; i < clientList.length; i++) { if (client.url.includes(
\* self.location.origin)) return client.focus(); }: the client the loop
\* returns at, from the i-th of the enumerated windows on; 0 when it runs
\* through.
RECURSIVE FindWindow(_, _)
FindWindow(windows, i) ==
  IF i > Len(windows) THEN 0
  ELSE IF Includes(clientList[windows[i]].url, Origin) THEN windows[i]
  ELSE FindWindow(windows, i + 1)

IdleClick ==
  [pc |-> "idle", task |-> "none", matchAll |-> "none", settled |-> "none",
   calls |-> <<>>]

\* The notificationclick listener up to clients.matchAll.
NotificationClick ==
  /\ clickEv.pc = "idle"
  /\ clickEv' = [pc |-> "matchAll", task |-> "pending", matchAll |-> "pending",
                 settled |-> "none",
                 calls |-> <<[op |-> "close"], [op |-> "matchAll"]>>]
  /\ UNCHANGED <<build, console, cacheVars, relayVars, pushEv, messageEv>>

\* matchAll({type: 'window', includeUncontrolled: true}) settles: the loop
\* runs and calls client.focus() or clients.openWindow('/overview'); a
\* rejection is logged by .catch.
ClickMatchAllSettles ==
  /\ clickEv.pc = "matchAll"
  /\ \E ok \in BOOLEAN :
       IF ok
       THEN LET found == FindWindow(MatchAll(clientList, TRUE), 1)
            IN /\ clickEv' =
                    [clickEv EXCEPT
                       !.pc = "settling",
                       !.matchAll = "fulfilled",
                       !.calls = Append(@, IF found # 0
                                           THEN [op |-> "focus", client |-> found]
                                           ELSE [op |-> "openWindow", url |-> OverviewRoute])]
               /\ console' = console
       ELSE /\ clickEv' = [clickEv EXCEPT !.pc = "done", !.task = "fulfilled",
                                            !.matchAll = "rejected"]
            /\ console' = console \cup {"Failed to handle notification click"}
  /\ UNCHANGED <<build, cacheVars, relayVars, pushEv, messageEv>>

\* The chain without its .catch: a rejection reaches event.waitUntil.
ClickSettlesUncaught ==
  /\ clickEv.pc = "settling"
  /\ \E ok \in BOOLEAN :
       /\ console' = console
       /\ clickEv' = [clickEv EXCEPT
                        !.pc = "done",
                        !.task = IF ok THEN "fulfilled" ELSE "rejected",
                        !.settled = IF ok THEN "fulfilled" ELSE "rejected"]
  /\ UNCHANGED <<build, cacheVars, relayVars, pushEv, messageEv>>

\* client.focus() or clients.openWindow() settles; .catch logs a rejection.
ClickSettles ==
  /\ clickEv.pc = "settling"
  /\ \E ok \in BOOLEAN :
       /\ console' = IF ok THEN console
                     ELSE console \cup {"Failed to handle notification click"}
       /\ clickEv' = [clickEv EXCEPT
                        !.pc = "done", !.task = "fulfilled",
                        !.settled = IF ok THEN "fulfilled" ELSE "rejected"]
  /\ UNCHANGED <<build, cacheVars, relayVars, pushEv, messageEv>>

----------------------------------------------------------------------------
(* Specifications: one per group of handlers, the others idle *)

IdleActivate ==
  [pc |-> "idle", task |-> "none", present |-> {}, deleteCalls |-> {},
   deleting |-> {}, timer |-> "none"]

CacheIdle ==
  /\ installEv = [pc |-> "idle", task |-> "none"]
  /\ activateEv = IdleActivate
  /\ fetchEv = IdleFetch
  /\ fetchCount = 0

OneAppClient == <<[controlled |-> TRUE, url |-> <<Origin, "/">>]>>

\* Install, activate, the initial log and fetch events.
InitCache ==
  /\ build \in Builds
  /\ console = {}
  /\ cacheStorage \in InitialStores
  /\ CacheIdle
  /\ RelayInit({OneAppClient}, {"never"}, FALSE)
  /\ pushEv = IdlePush
  /\ clickEv = IdleClick
  /\ messageEv = IdleMessage

NextCache ==
  \/ InstallEvent
  \/ InstallOpenSettles
  \/ InstallAddAllSettles
  \/ ActivateEvent
  \/ ActivateKeysSettle
  \/ \E name \in BucketNames : ActivateDeleteSettles(name)
  \/ ActivateCleanupComplete
  \/ SendInitialLog
  \/ \E i \in relayPending : RelaySettles(i)
  \/ \E url \in RequestUrls : FetchEvent(url)
  \/ FetchMatchSettles
  \/ FetchNetworkSettles
  \/ FetchFallbackSettles

SpecCache == InitCache /\ [][NextCache]_vars

\* One push event and the relay of its logs.
InitPush ==
  /\ build \in Builds
  /\ console = {}
  /\ cacheStorage = <<>>
  /\ CacheIdle
  /\ RelayInit({OneAppClient}, {"never"}, FALSE)
  /\ pushEv = IdlePush
  /\ clickEv = IdleClick
  /\ messageEv = IdleMessage

NextPush ==
  \/ \E payload \in Payloads : PushEvent(payload)
  \/ PushDebugSettles
  \/ PushMainSettles
  \/ PushFallbackSettles
  \/ \E i \in relayPending : RelaySettles(i)

SpecPush == InitPush /\ [][NextPush]_vars

\* One notification click, for every list of open windows.
InitClick ==
  /\ build \in Builds
  /\ console = {}
  /\ cacheStorage = <<>>
  /\ CacheIdle
  /\ RelayInit(ClientLists(AppUrls \cup OtherUrls, MaxWindows), {"never"}, FALSE)
  /\ pushEv = IdlePush
  /\ clickEv = IdleClick
  /\ messageEv = IdleMessage

NextClick ==
  \/ NotificationClick
  \/ ClickMatchAllSettles
  \/ ClickSettles

SpecClick == InitClick /\ [][NextClick]_vars

\* Message events and the relay of their logs, for every list of up to
\* MaxClients clients, for every set of clients whose postMessage throws,
\* with and without rejections of matchAll.
InitRelay ==
  /\ build \in Builds
  /\ console = {}
  /\ cacheStorage = <<>>
  /\ CacheIdle
  /\ RelayInit(ClientLists({<<Origin, "/">>}, MaxClients), {"never", "sometimes"}, TRUE)
  /\ pushEv = IdlePush
  /\ clickEv = IdleClick
  /\ messageEv = IdleMessage

NextRelay ==
  \/ \E data \in MessageData : MessageEvent(data)
  \/ \E i \in relayPending : RelaySettles(i)

SpecRelay == InitRelay /\ [][NextRelay]_vars

----------------------------------------------------------------------------
(* Properties of the cache lifecycle and of fetch interception (SpecCache) *)

\* C1: the activate handler never calls caches.delete for CACHE_NAME, and
\* once its awaited task has completed, every bucket that was present when
\* the event fired and is not named CACHE_NAME is gone, while the bucket
\* named CACHE_NAME, if it was present, still is.
C1_ActivatePrunesStaleBuckets ==
  /\ CACHE_NAME \notin activateEv.deleteCalls
  /\ activateEv.task = "fulfilled" =>
       /\ \A name \in activateEv.present \ {CACHE_NAME} :
            name \notin BucketNamesOf(cacheStorage)
       /\ CACHE_NAME \in activateEv.present =>
            CACHE_NAME \in BucketNamesOf(cacheStorage)

\* Activation completed with two stale buckets and the current one present.
C1_Witness ==
  /\ activateEv.task = "fulfilled"
  /\ CACHE_NAME \in activateEv.present
  /\ Cardinality(activateEv.present \ {CACHE_NAME}) = 2
  /\ BucketNamesOf(cacheStorage) = {CACHE_NAME}

\* C2: when a bucket holds the request at the time of the lookup, the
\* handler responds with a cached response for it and never calls the
\* network; when the lookup succeeds and no bucket holds it, the request is
\* forwarded to the network.
C2_CacheFirst ==
  fetchEv.lookup \in {"hit", "miss"} =>
    IF fetchEv.inCache
    THEN /\ fetchEv.networkCalls = 0
         /\ fetchEv.result = "fulfilled"
         /\ fetchEv.response.url = fetchEv.url
         /\ fetchEv.response.from \in BucketNames
    ELSE fetchEv.networkCalls >= 1

\* A request answered from the cache.
C2_Witness ==
  /\ fetchEv.lookup = "hit"
  /\ fetchEv.inCache
  /\ fetchEv.result = "fulfilled"
  /\ fetchEv.response.from = CACHE_NAME

\* C10: the fallback fetch of the outer catch is issued only when the cache
\* lookup itself failed; on a cache miss exactly one network request is
\* made, and when it fails its failure is the outcome of the request.
C10_FallbackOnlyOnLookupFailure ==
  /\ fetchEv.pc = "fallbackFetch" => fetchEv.lookup = "failed"
  /\ fetchEv.lookup = "miss" => fetchEv.networkCalls <= 1

----------------------------------------------------------------------------
(* Properties of the push pipeline (SpecPush) *)

HasLog(logType, message) ==
  \E k \in DOMAIN emitted : emitted[k] = PushLog(logType, message)

ErrorLogs == {k \in DOMAIN emitted : emitted[k].logType = "error"}

\* The payload is a structured object with both title and body.
StructuredWithTitleAndBody(payload) ==
  /\ payload.present
  /\ payload.json.ok
  /\ payload.json.value.type = "object"
  /\ {"title", "body"} \subseteq DOMAIN payload.json.value.fields

\* C3: for a payload that parses as an object with title and body, every
\* notification rendered for the event has exactly that title and that
\* body, the empty string included.
C3_StructuredPayloadShownVerbatim ==
  StructuredWithTitleAndBody(pushEv.payload) =>
    \A i \in DOMAIN pushEv.shown :
      /\ pushEv.shown[i].title = pushEv.payload.json.value.fields["title"]
      /\ pushEv.shown[i].options.body = pushEv.payload.json.value.fields["body"]

\* C4: when the primary showNotification fails, the fallback is called with
\* the title 'Medication Reminder' and the default body; when the fallback
\* fails too, an error log for each failure has been emitted and the task
\* given to waitUntil has completed without rejecting.
C4_FallbackAfterPrimaryFailure ==
  \A i \in DOMAIN pushEv.shown :
    (pushEv.shown[i].call = "main" /\ pushEv.shown[i].outcome = "failed") =>
      /\ i + 1 \in DOMAIN pushEv.shown
      /\ pushEv.shown[i + 1].title = DefaultTitle
      /\ pushEv.shown[i + 1].options.body = DefaultBody
      /\ pushEv.task # "rejected"
      /\ pushEv.shown[i + 1].outcome = "failed" =>
           /\ pushEv.task = "fulfilled"
           /\ Len(pushEv.shown) = i + 1
           /\ \E a, b \in ErrorLogs :
                /\ a < b
                /\ emitted[a].message \in {"showNotification failed",
                                           "Main showNotification failed"}
                /\ emitted[b].message = "Even fallback notification failed"

\* The primary and the fallback notification both failed.
C4_Witness ==
  /\ pushEv.pc = "done"
  /\ \E i \in DOMAIN pushEv.shown :
       /\ pushEv.shown[i].call = "main"
       /\ pushEv.shown[i].outcome = "failed"
       /\ i + 1 \in DOMAIN pushEv.shown
       /\ pushEv.shown[i + 1].outcome = "failed"

\* C5: whatever the payload, decoding never makes the pipeline fail: the
\* task given to waitUntil does not reject and a notification render is
\* attempted.
C5_DecodeNeverFailsThePipeline ==
  pushEv.pc # "idle" =>
    /\ pushEv.task # "rejected"
    /\ Len(pushEv.shown) >= 1

\* The payload is text that is not JSON.
PlainText(payload) ==
  /\ payload.present
  /\ ~payload.json.ok
  /\ payload.text.ok

\* C6: for a payload that is plain text T and not JSON, the notification
\* is rendered with body T, for every T, and the default title, and the
\* warning log of the text fallback has been emitted.
C6_TextPayloadShownAsBody ==
  (pushEv.pc # "idle" /\ PlainText(pushEv.payload)) =>
    /\ HasLog("warning", "Using text fallback")
    /\ \A i \in DOMAIN pushEv.shown :
         pushEv.shown[i].call = "main" =>
           /\ pushEv.shown[i].options.body = pushEv.payload.text.value
           /\ pushEv.shown[i].title = DefaultTitle

\* C7: for a push event without payload, the notification is rendered with
\* the title 'Medication Reminder' and the default body, and the warning
\* log of the missing data has been emitted.
C7_NoPayloadShowsDefaults ==
  (pushEv.pc # "idle" /\ ~pushEv.payload.present) =>
    /\ HasLog("warning", "No data in push event")
    /\ \/ pushEv.pc = "debug"
       \/ \E i \in DOMAIN pushEv.shown : pushEv.shown[i].call = "main"
    /\ \A i \in DOMAIN pushEv.shown :
         pushEv.shown[i].call = "main" =>
           /\ pushEv.shown[i].title = DefaultTitle
           /\ pushEv.shown[i].options.body = DefaultBody

\* A push event without payload whose notification was displayed.
C7_Witness ==
  /\ ~pushEv.payload.present
  /\ pushEv.pc = "done"
  /\ \E i \in DOMAIN pushEv.shown :
       pushEv.shown[i].call = "main" /\ pushEv.shown[i].outcome = "shown"

----------------------------------------------------------------------------
(* Properties of the notification click handler (SpecClick) *)

\* The open windows whose URL includes the worker's origin.
MatchingWindows == {c \in DOMAIN clientList : Includes(clientList[c].url, Origin)}

CallsOf(op) == {k \in DOMAIN clickEv.calls : clickEv.calls[k].op = op}

\* C8: when the enumeration returns at least one window matching the
\* worker's origin, the handler focuses the first of them in enumeration
\* order, focuses no other window and never calls openWindow.
C8_FocusFirstMatchingWindow ==
  (clickEv.matchAll = "fulfilled" /\ MatchingWindows # {}) =>
    /\ CallsOf("openWindow") = {}
    /\ Cardinality(CallsOf("focus")) = 1
    /\ \A k \in CallsOf("focus") :
         /\ clickEv.calls[k].client \in MatchingWindows
         /\ \A c \in MatchingWindows : clickEv.calls[k].client <= c

\* Two windows match and one that does not comes first.
C8_Witness ==
  /\ clickEv.pc = "done"
  /\ clickEv.matchAll = "fulfilled"
  /\ Cardinality(MatchingWindows) >= 2
  /\ 1 \notin MatchingWindows
  /\ CallsOf("focus") # {}

\* C9: when the enumeration returns no window matching the worker's
\* origin, zero windows included, the handler calls openWindow exactly once,
\* with the route '/overview', and focuses no window.
C9_OpenWindowWhenNoneMatches ==
  (clickEv.matchAll = "fulfilled" /\ MatchingWindows = {}) =>
    /\ CallsOf("focus") = {}
    /\ Cardinality(CallsOf("openWindow")) = 1
    /\ \A k \in CallsOf("openWindow") : clickEv.calls[k].url = "/overview"

\* A click with no window open at all.
C9_Witness ==
  /\ clickEv.pc = "done"
  /\ clickEv.matchAll = "fulfilled"
  /\ clientList = <<>>
  /\ CallsOf("openWindow") # {}

----------------------------------------------------------------------------
(* Further properties of the cache lifecycle (SpecCache) *)

\* C11: a cached response returned by fetch interception always comes from
\* the bucket named CACHE_NAME; a request held only by a bucket of another
\* version is not served from that bucket.
C11_ServedFromCurrentBucketOnly ==
  fetchEv.lookup = "hit" => fetchEv.response.from = CACHE_NAME

\* C13: no failure of a cache-storage operation (open, addAll, keys,
\* delete) is fatal to install or activate: the task given to waitUntil
\* never rejects.
C13_StorageFailuresNeverFatal ==
  /\ installEv.task # "rejected"
  /\ activateEv.task # "rejected"

\* The bucket named CACHE_NAME holds the whole precache list.
CurrentBucketPrecached ==
  \E i \in DOMAIN cacheStorage :
    /\ cacheStorage[i].name = CACHE_NAME
    /\ urlsToCache \subseteq cacheStorage[i].urls

----------------------------------------------------------------------------
(* Properties of the log relay and the message listener (SpecRelay) *)

\* C12: whenever a sendLogToApp call has enumerated the clients, the log has
\* reached every enumerated client whose postMessage does not throw, whatever
\* the set of clients whose postMessage throws.
C12_BroadcastSurvivesClientFailure ==
  \A o \in relayOutcome :
    ~o.rejected =>
      \A c \in RelayRecipients(clientList) \ relayFaults.throwing :
        o.log \in inbox[c].got

\* The type of a posted message, when its data is an object that has one.
MessageType(data) ==
  IF data.type = "object" /\ "type" \in DOMAIN data.fields
     /\ data.fields["type"].type = "string"
  THEN data.fields["type"].value
  ELSE "none"

\* The levels of the logs emitted by a step.
EmittedLevels ==
  [k \in 1 .. (Len(emitted') - Len(emitted)) |-> emitted'[Len(emitted) + k].logType]

\* C16: handling a message of type TEST_CONNECTION emits exactly one log, of
\* level success; one of type TEST_LOG exactly two, success then info; any
\* other message emits none and changes nothing but the record of the
\* message itself.
C16_TestMessagesEmitTheirLogs ==
  [][messageEv'.count > messageEv.count =>
       /\ EmittedLevels =
            CASE MessageType(messageEv'.data) = "TEST_CONNECTION" -> <<"success">>
              [] MessageType(messageEv'.data) = "TEST_LOG" -> <<"success", "info">>
              [] OTHER -> <<>>
       /\ \A k \in Len(emitted) + 1 .. Len(emitted') : k \in relayPending'
       /\ MessageType(messageEv'.data) \notin {"TEST_CONNECTION", "TEST_LOG"}
            => UNCHANGED <<build, console, cacheVars, relayVars, pushEv, clickEv>>
    ]_vars

\* A TEST_LOG message was handled and its two logs emitted.
C16_Witness ==
  /\ messageEv.count = 1
  /\ MessageType(messageEv.data) = "TEST_LOG"
  /\ Len(emitted) = 2
  /\ emitted[1].logType = "success"
  /\ emitted[2].logType = "info"

----------------------------------------------------------------------------
(* The push pipeline over a failing relay (SpecPushRelay) *)

\* One payload of each decode tier, and the JSON text null.
RelayPayloads ==
  {NoData, TextPayload("Time for your dose"), JsonPayload(JsNull),
   JsonPayload(JsObject([f \in {"title", "body"} |->
                           IF f = "title" THEN JsString("Dose due")
                           ELSE JsString("Take 5 ml")]))}

\* One push event with no client or one, whose postMessage may throw, on a
\* host whose matchAll never or always rejects.
InitPushRelay ==
  /\ build \in Builds
  /\ console = {}
  /\ cacheStorage = <<>>
  /\ CacheIdle
  /\ RelayInit(ClientLists({<<Origin, "/">>}, 1), {"never", "always"}, TRUE)
  /\ pushEv = IdlePush
  /\ clickEv = IdleClick
  /\ messageEv = IdleMessage

NextPushRelay ==
  \/ \E payload \in RelayPayloads : PushEvent(payload)
  \/ PushDebugSettles
  \/ PushMainSettles
  \/ PushFallbackSettles
  \/ \E i \in relayPending : RelaySettles(i)

SpecPushRelay == InitPushRelay /\ [][NextPushRelay]_vars

\* The showNotification calls a push event with this payload can make, in
\* order, as the build and the payload alone fix them.
RenderPlan(payload) ==
  LET data == PushDecode(payload).data IN
  (IF build = "v4"
   THEN <<[call |-> "debug", title |-> JsString("DEBUG: Push Event Received"),
           options |-> DebugOptions]>>
   ELSE <<>>)
  \o <<[call |-> "main", title |-> PushTitle(data), options |-> PushOptions(data)],
       [call |-> "fallback", title |-> DefaultTitle, options |-> FallbackOptions]>>

\* The showNotification calls made so far are those the payload and the
\* outcomes of the earlier calls fix, whatever the clients and the relay do.
RenderingFollowsPlan ==
  pushEv.task \in {"pending", "fulfilled"} =>
    LET shown == pushEv.shown
        plan == RenderPlan(pushEv.payload)
    IN /\ Len(shown) \in 1 .. Len(plan)
       /\ \A k \in DOMAIN shown :
            /\ shown[k].call = plan[k].call
            /\ shown[k].title = plan[k].title
            /\ shown[k].options = plan[k].options
            /\ k < Len(shown) => shown[k].outcome # "pending"
            /\ shown[k].call = "fallback" => shown[k - 1].outcome = "failed"
       /\ pushEv.task = "fulfilled" =>
            /\ shown[Len(shown)].outcome # "pending"
            /\ shown[Len(shown)].call = "main" => shown[Len(shown)].outcome = "shown"
            /\ shown[Len(shown)].call # "debug"

\* C15: the relay has no effect on rendering: the showNotification calls of a
\* push event are fixed by the event and by the showNotification outcomes,
\* whatever the connected clients are and whether matchAll or postMessage
\* fails, and the task given to event.waitUntil does not reject.
C15_RelayNeverAffectsRendering ==
  /\ RenderingFollowsPlan
  /\ pushEv.task # "rejected"

----------------------------------------------------------------------------
(* Further properties of the push pipeline (SpecPush) and of the click
   handler (SpecClick) *)

ShownWith(outcome) == {k \in DOMAIN pushEv.shown : pushEv.shown[k].outcome = outcome}

\* C17: a push event makes at most two showNotification calls: first the
\* primary render with the derived title and options, then the fallback
\* render only if the primary failed; when the primary render succeeds
\* exactly one notification is displayed, and nothing is rendered after a
\* failed fallback.
C17_AtMostTwoRendersPrimaryFirst ==
  LET shown == pushEv.shown
      data == PushDecode(pushEv.payload).data
  IN /\ Len(shown) <= 2
     /\ Len(shown) >= 1 =>
          /\ shown[1].call = "main"
          /\ shown[1].title = PushTitle(data)
          /\ shown[1].options = PushOptions(data)
     /\ Len(shown) = 2 =>
          /\ shown[2].call = "fallback"
          /\ shown[1].outcome = "failed"
     /\ (\E k \in ShownWith("shown") : shown[k].call = "main") =>
          Cardinality(ShownWith("shown")) = 1
     /\ \A k \in ShownWith("failed") :
          shown[k].call = "fallback" => k = Len(shown) /\ pushEv.pc = "done"

\* The handlers whose event the host considers finished: the task given to
\* event.waitUntil has completed, or the listener has returned.
FinishedHandlers ==
  (IF pushEv.task \in {"fulfilled", "rejected"} THEN {"push"} ELSE {})
    \cup (IF messageEv.count > 0 THEN {"message"} ELSE {})
    \cup (IF activateEv.task \in {"fulfilled", "rejected"}
          THEN {"activate", "sendInitialLog"} ELSE {})

\* C18: once the host considers a push, message or activate event finished,
\* nothing started for it is still pending: no timer, no showNotification
\* call, no client enumeration, and every log the handler emitted has reached
\* every connected client.
C18_NothingPendingWhenEventFinished ==
  /\ \A i \in DOMAIN emitted :
       emitted[i].handler \in FinishedHandlers =>
         /\ i \notin relayPending
         /\ \A c \in RelayRecipients(clientList) : i \in inbox[c].got
  /\ "push" \in FinishedHandlers => ShownWith("pending") = {}
  /\ "activate" \in FinishedHandlers => activateEv.timer # "armed"

\* C20: a client never receives two logs of one handler run against the
\* order in which they were emitted.
C20_LogsArriveInEmissionOrder ==
  \A c \in DOMAIN inbox : ~inbox[c].reordered

\* C19: a click closes the notification before it enumerates the windows,
\* calls at most one of focus and openWindow and at most once; a failure of
\* the enumeration or of focus is logged, is not followed by an openWindow
\* call, and never rejects the task given to event.waitUntil.
C19_ClickClosesThenActsOnce ==
  clickEv.pc # "idle" =>
    /\ CallsOf("close") = {1}
    /\ CallsOf("matchAll") = {2}
    /\ Cardinality(CallsOf("focus") \cup CallsOf("openWindow")) <= 1
    /\ clickEv.task # "rejected"
    /\ clickEv.matchAll = "rejected" =>
         /\ "Failed to handle notification click" \in console
         /\ CallsOf("focus") \cup CallsOf("openWindow") = {}
         /\ clickEv.task = "fulfilled"
    /\ (CallsOf("focus") # {} /\ clickEv.settled = "rejected") =>
         /\ "Failed to handle notification click" \in console
         /\ CallsOf("openWindow") = {}
         /\ clickEv.task = "fulfilled"

\* The focus of a matching window was rejected.
C19_Witness ==
  /\ clickEv.pc = "done"
  /\ clickEv.settled = "rejected"
  /\ CallsOf("focus") # {}
  /\ MatchingWindows # {}

====
